---- MODULE Spec2Model ----
(***************************************************************************)
(* Model of src/src/delete_default_cloudtrail.py: one invocation of the    *)
(* trail/bucket deleter is a sequence of service calls (STS, CloudTrail,   *)
(* S3); every call is one step so that call order, partial effects and     *)
(* failures are visible.  Only log records of level warning and error are  *)
(* modelled (the debug/info records carry no decision).                    *)
(***************************************************************************)
EXTENDS Integers, Sequences, FiniteSets, TLC

\* ------------------------------------------------------------------ bounds
MaxRuns == 2          \* invocations against the same account
PageSize == 2         \* keys returned by one list_objects_v2 page (scaled)
ExtraObjects == 1     \* how far a bucket may exceed one listing page
MaxObjects == PageSize + ExtraObjects

\* ------------------------------------------------------- input universes
\* Trail names are character sequences so that startswith is computed.
TrailUniverse ==
  << <<"c","t","-","a">>, <<"c","t","-","b">>, <<"C","T","-","a">>, <<"c","t">> >>

TrailNames == { TrailUniverse[i] : i \in 1..Len(TrailUniverse) }

Prefixes == { <<"c","t","-">>, <<"c","t">> }

BucketNames == { "b1", "b2" }

\* S3BucketName configured on each trail of the account.
BucketOf(name) == IF name = <<"c","t","-","a">> THEN "b1" ELSE "b2"

KeyNames == << "k1", "k2", "k3", "k4", "k5" >>

Keys == 1..MaxObjects

\* ARN of the identity the process runs as; field 2 is the partition.
CallerArns == { <<"arn", "aws", "sts", "", "999999999999", "assumed-role/lambda">> }

\* Inbound events (event mode).
Events ==
  { [detail |-> [eventName |-> "CreateAccountResult",
                 serviceEventDetails |->
                   [createAccountStatus |-> [accountId |-> "111111111111"]],
                 requestParameters |-> [target |-> [id |-> "000000000000"]]]],
    [detail |-> [eventName |-> "InviteAccountToOrganization",
                 serviceEventDetails |->
                   [createAccountStatus |-> [accountId |-> "000000000000"]],
                 requestParameters |-> [target |-> [id |-> "222222222222"]]]],
    [detail |-> [eventName |-> "RemoveAccountFromOrganization",
                 serviceEventDetails |->
                   [createAccountStatus |-> [accountId |-> "333333333333"]],
                 requestParameters |-> [target |-> [id |-> "333333333333"]]]] }

\* The event of an invocation that has none (command-line mode).
NoEvent ==
  [detail |-> [eventName |-> "",
               serviceEventDetails |-> [createAccountStatus |-> [accountId |-> ""]],
               requestParameters |-> [target |-> [id |-> ""]]]]

\* Command-line arguments: exactly one of the role arn / role name is given.
CliArgs ==
  { [target_account_id |-> "444444444444",
     assume_role_arn |-> <<"arn", "aws", "iam", "", "444444444444", "role/", "Given">>,
     assume_role_name |-> ""],
    [target_account_id |-> "444444444444",
     assume_role_arn |-> <<>>,
     assume_role_name |-> "Named"] }

\* What a service call can do: succeed, fail with a botocore ClientError
\* (an error response of the service), or fail with another exception of
\* the SDK (connection/timeout errors are not ClientError).
CallResults == { "ok", "ClientError", "BotoCoreError" }

ASSUME_ROLE_NAME == "OrganizationAccountAccessRole"

\* ------------------------------------------------------------------ state
VARIABLES
  DRY_RUN,                 \* configuration, read once
  ERROR_NOT_FOUND,
  CLOUDTRAIL_NAME_PREFIX,
  callerArn,               \* identity of the process
  account,                 \* the target account: trails, logging, buckets
  account0,                \* the account before the first invocation
  accountAtStart,          \* the account when the current invocation began
  pc,                      \* position of the current invocation
  mode,                    \* "lambda" | "cli" | "none"
  event,                   \* lambda_handler argument
  account_id,
  assume_role_arn,
  assume_role_name,        \* cli_main argument ("" when the arn is given)
  matching_trails,         \* get_cloudtrail local
  cloudtrail,              \* result of get_cloudtrail
  objects,                 \* delete_s3_objects local: the listed keys
  idx,                     \* delete_s3_objects loop position
  calls,                   \* service calls of the current invocation
  log,                     \* warning/error records of the current invocation
  outcome,                 \* how the current invocation ended
  runs,                    \* invocations started
  notArmed                 \* (ARN, bucket) pairs logged as NOT ARMED, all runs,
                           \* in order

vars == << DRY_RUN, ERROR_NOT_FOUND, CLOUDTRAIL_NAME_PREFIX, callerArn,
           account, account0, accountAtStart, pc, mode, event,
           account_id, assume_role_arn, assume_role_name, matching_trails,
           cloudtrail, objects, idx, calls, log, outcome, runs, notArmed >>

config == << DRY_RUN, ERROR_NOT_FOUND, CLOUDTRAIL_NAME_PREFIX, callerArn >>

locals == << matching_trails, cloudtrail, objects, idx >>

\* ---------------------------------------------------------------- helpers
Min(a, b) == IF a < b THEN a ELSE b

RECURSIVE SetToSeq(_)
SetToSeq(S) ==
  IF S = {} THEN <<>>
  ELSE LET m == CHOOSE x \in S : \A y \in S : x <= y
       IN <<m>> \o SetToSeq(S \ {m})

\* str.startswith
StartsWith(name, prefix) ==
  /\ Len(prefix) <= Len(name)
  /\ SubSeq(name, 1, Len(prefix)) = prefix

TrailARN(name) == <<"a", "r", "n", "/">> \o name

NoError == [status |-> "ok", type |-> "none", op |-> "none",
            code |-> "none", cause |-> "none"]

Running == [status |-> "running", type |-> "none", op |-> "none",
            code |-> "none", cause |-> "none"]

Raised(type, op, code, cause) ==
  [status |-> "error", type |-> type, op |-> op, code |-> code, cause |-> cause]

\* An exception of a failed service call, as it leaves the call.
CallError(r, op, code) == Raised(r, op, code, "none")

NoTrail == [found |-> FALSE,
            Trail |-> [Name |-> <<>>, TrailARN |-> <<>>, S3BucketName |-> "none"]]

\* A service call and how it ended: "ok" or the exception it raised.
Call(op, arg, r) == [op |-> op, arg |-> arg, ok |-> (r = "ok"), result |-> r]

LogRec(level, msg, args) == [level |-> level, msg |-> msg, args |-> args]

\* ------------------------------------------------- the services' behaviour
\* describe_trails(trailNameList=[]): the trails of the account, in a fixed
\* order.
DescribeTrails(acct) ==
  [trailList |-> SelectSeq(TrailUniverse, LAMBDA n : n \in acct.trails)]

\* get_trail(Name=name): the descriptor of the named trail.
GetTrail(name) ==
  [found |-> TRUE,
   Trail |-> [Name |-> name, TrailARN |-> TrailARN(name),
              S3BucketName |-> BucketOf(name)]]

\* The trail an ARN names.
TrailOfArn(arn) == SubSeq(arn, 5, Len(arn))

\* Variant: the listing follows continuation tokens and returns every key.
ListObjectsV2_AllPages(keys) ==
  LET all == SetToSeq(keys)
  IN [hasContents |-> all # <<>>, Contents |-> all, IsTruncated |-> FALSE]

\* list_objects_v2(Bucket=b) without a continuation token: the first page
\* of keys in key order; the response has no "Contents" entry when the page
\* is empty.
ListObjectsV2(keys) ==
  LET all == SetToSeq(keys)
      page == SubSeq(all, 1, Min(PageSize, Len(all)))
  IN [hasContents |-> page # <<>>, Contents |-> page,
      IsTruncated |-> Len(all) > Len(page)]

\* ------------------------------------------------------ pure code helpers
Lower(c) == IF c = "C" THEN "c" ELSE IF c = "T" THEN "t" ELSE c

LowerAll(str) == [ i \in 1..Len(str) |-> Lower(str[i]) ]

\* Variant: the prefix is compared ignoring case.
MatchingTrails_IgnoreCase(trailList, prefix) ==
  SelectSeq(trailList, LAMBDA n : StartsWith(LowerAll(n), LowerAll(prefix)))

\* get_cloudtrail, the filter loop: names of the listed trails that start
\* with the prefix, in listing order.
MatchingTrails(trailList, prefix) ==
  SelectSeq(trailList, LAMBDA n : StartsWith(n, prefix))

\* Variant: several matches are resolved to the first of them.
Resolution_FirstOfMany(matching, errorNotFound) ==
  IF Len(matching) = 0
  THEN IF errorNotFound THEN "NoCloudtrailsFoundError" ELSE "None"
  ELSE "get_trail"

\* get_cloudtrail, the decision on the number of matches.
Resolution(matching, errorNotFound) ==
  IF Len(matching) > 1 THEN "MultipleCloudtrailsFoundError"
  ELSE IF Len(matching) = 0
       THEN IF errorNotFound THEN "NoCloudtrailsFoundError" ELSE "None"
       ELSE "get_trail"

\* Variant: the handler catches every exception.
CaughtByLookup_Any(r) == TRUE

\* get_cloudtrail, `except ClientError`: which failures of describe_trails
\* and get_trail the handler catches.
CaughtByLookup(r) == r = "ClientError"

\* What leaves get_cloudtrail when a service call in it failed with r.
LookupError(r, op) ==
  IF CaughtByLookup(r)
  THEN Raised("DeleteDefaultCloudtrailError", op, "lookup", r)
  ELSE CallError(r, op, "injected")

\* What get_cloudtrail logs when a service call in it failed with r.
LookupLog(r, prefix) ==
  IF CaughtByLookup(r)
  THEN << LogRec("error", "Error getting cloudtrail", prefix) >>
  ELSE << >>

get_new_account_id(ev) ==
  ev.detail.serviceEventDetails.createAccountStatus.accountId

get_invite_account_id(ev) ==
  ev.detail.requestParameters.target.id

\* Variant: an unknown event name falls back to the new-account rule.
get_account_id_default(ev) ==
  LET event_name == ev.detail.eventName
  IN IF event_name = "InviteAccountToOrganization"
     THEN [ok |-> TRUE, value |-> get_invite_account_id(ev)]
     ELSE [ok |-> TRUE, value |-> get_new_account_id(ev)]

\* get_account_id: the strategy table; an unknown name is a KeyError.
get_account_id(ev) ==
  LET event_name == ev.detail.eventName
  IN IF event_name = "CreateAccountResult"
     THEN [ok |-> TRUE, value |-> get_new_account_id(ev)]
     ELSE IF event_name = "InviteAccountToOrganization"
     THEN [ok |-> TRUE, value |-> get_invite_account_id(ev)]
     ELSE [ok |-> FALSE, value |-> event_name]

\* Variant: deletion runs whatever DRY_RUN is.
Armed_Always(dry_run) == TRUE

\* delete_cloudtrail_resources, `if not DRY_RUN`: whether deletion runs.
Armed(dry_run) == ~dry_run

\* Variant: the bucket is emptied and deleted before the trail.
NextStep_BucketFirst(step) ==
  CASE step = "get_trail" -> "list_objects_v2"
    [] step = "delete_s3_objects" -> "delete_bucket"
    [] step = "delete_bucket" -> "stop_logging"
    [] step = "stop_logging" -> "delete_trail"
    [] step = "delete_trail" -> "return"

\* The order of the live-mode steps: delete_cloudtrail (stop_logging, then
\* delete_trail) before delete_s3_bucket (delete_s3_objects, then
\* delete_bucket), and then the return of delete_cloudtrail_resources.
NextStep(step) ==
  CASE step = "get_trail" -> "stop_logging"
    [] step = "stop_logging" -> "delete_trail"
    [] step = "delete_trail" -> "list_objects_v2"
    [] step = "delete_s3_objects" -> "delete_bucket"
    [] step = "delete_bucket" -> "return"

\* get_partition: field 1 of the caller ARN split on ":" (0-based).
Partition(arn) == arn[2]

RoleArn(partition, id, name) ==
  <<"arn", partition, "iam", "", id, "role/", name>>

\* ------------------------------------------------------------------- Init
BucketStates ==
  { [exists |-> FALSE, keys |-> {}] }
  \cup { [exists |-> TRUE, keys |-> 1..n] : n \in 0..MaxObjects }

Init ==
  /\ DRY_RUN \in BOOLEAN
  /\ ERROR_NOT_FOUND \in BOOLEAN
  /\ CLOUDTRAIL_NAME_PREFIX \in Prefixes
  /\ callerArn \in CallerArns
  /\ \E ts \in SUBSET TrailNames, bs \in [BucketNames -> BucketStates] :
       account = [trails |-> ts, logging |-> ts, buckets |-> bs]
  /\ account0 = account
  /\ accountAtStart = account
  /\ pc = "idle"
  /\ mode = "none"
  /\ event = NoEvent
  /\ account_id = ""
  /\ assume_role_arn = <<>>
  /\ assume_role_name = ""
  /\ matching_trails = <<>>
  /\ cloudtrail = NoTrail
  /\ objects = <<>>
  /\ idx = 1
  /\ calls = <<>>
  /\ log = <<>>
  /\ outcome = Running
  /\ runs = 0
  /\ notArmed = <<>>

\* ------------------------------------------------------ invocation entry
\* A new invocation: fresh locals, a fresh call trace and log.
Begin(m) ==
  /\ pc \in {"idle", "done"}
  /\ runs < MaxRuns
  /\ runs' = runs + 1
  /\ mode' = m
  /\ accountAtStart' = account
  /\ matching_trails' = <<>>
  /\ cloudtrail' = NoTrail
  /\ objects' = <<>>
  /\ idx' = 1
  /\ calls' = <<>>
  /\ log' = <<>>
  /\ UNCHANGED << config, account, account0, notArmed >>

\* lambda_handler up to the first service call.
lambda_handler ==
  \E ev \in Events :
    /\ Begin("lambda")
    /\ event' = ev
    /\ assume_role_arn' = <<>>
    /\ assume_role_name' = ""
    /\ LET r == get_account_id(ev)
       IN IF r.ok
          THEN /\ account_id' = r.value
               /\ pc' = "get_partition"
               /\ outcome' = Running
          ELSE /\ account_id' = ""
               /\ pc' = "done"
               /\ outcome' = Raised("KeyError", "get_account_id", r.value, "none")

\* cli_main up to the first service call.
cli_main ==
  \E args \in CliArgs :
    /\ Begin("cli")
    /\ event' = NoEvent
    /\ account_id' = args.target_account_id
    /\ assume_role_arn' = args.assume_role_arn
    /\ assume_role_name' = args.assume_role_name
    /\ outcome' = Running
    /\ pc' = IF args.assume_role_name # "" THEN "get_partition" ELSE "main"

\* ------------------------------------------------------------- STS steps
\* Variant: a failed call is issued again.
Propagate_Retry(r, op) ==
  /\ pc' = pc
  /\ UNCHANGED outcome

\* A step that only issues a service call and either goes on or lets the
\* call's exception propagate.
Propagate(r, op) ==
  /\ pc' = "done"
  /\ outcome' = CallError(r, op, "injected")

get_partition ==
  /\ pc = "get_partition"
  /\ \E r \in CallResults :
       /\ calls' = Append(calls, Call("get_caller_identity", <<"base">>, r))
       /\ IF r = "ok"
          THEN /\ assume_role_arn' =
                    RoleArn(Partition(callerArn), account_id,
                            IF mode = "lambda" THEN ASSUME_ROLE_NAME
                                               ELSE assume_role_name)
               /\ pc' = IF mode = "lambda" THEN "assume_role" ELSE "main"
               /\ UNCHANGED outcome
          ELSE /\ Propagate(r, "get_caller_identity")
               /\ UNCHANGED assume_role_arn
  /\ UNCHANGED << config, account, account0, accountAtStart, mode, event, account_id,
                  assume_role_name, locals, log, runs, notArmed >>

\* main: the diagnostic identity call before delete_cloudtrail_resources.
main ==
  /\ pc = "main"
  /\ \E r \in CallResults :
       /\ calls' = Append(calls, Call("get_caller_identity", <<"base">>, r))
       /\ IF r = "ok"
          THEN pc' = "assume_role" /\ UNCHANGED outcome
          ELSE Propagate(r, "get_caller_identity")
  /\ UNCHANGED << config, account, account0, accountAtStart, mode, event, account_id,
                  assume_role_arn, assume_role_name, locals, log, runs, notArmed >>

\* get_assumed_role_session: assume_role(SESSION, role_arn, ...).
assume_role ==
  /\ pc = "assume_role"
  /\ \E r \in CallResults :
       /\ calls' = Append(calls, Call("assume_role", assume_role_arn, r))
       /\ IF r = "ok"
          THEN pc' = "assumed_identity" /\ UNCHANGED outcome
          ELSE Propagate(r, "assume_role")
  /\ UNCHANGED << config, account, account0, accountAtStart, mode, event, account_id,
                  assume_role_arn, assume_role_name, locals, log, runs, notArmed >>

\* get_assumed_role_session: the identity call on the assumed session.
assumed_identity ==
  /\ pc = "assumed_identity"
  /\ \E r \in CallResults :
       /\ calls' = Append(calls, Call("get_caller_identity", <<"assumed">>, r))
       /\ IF r = "ok"
          THEN pc' = "describe_trails" /\ UNCHANGED outcome
          ELSE Propagate(r, "get_caller_identity")
  /\ UNCHANGED << config, account, account0, accountAtStart, mode, event, account_id,
                  assume_role_arn, assume_role_name, locals, log, runs, notArmed >>

\* ------------------------------------------------- trail resolution steps
Finish(o) ==
  /\ pc' = "done"
  /\ outcome' = o

\* get_cloudtrail up to its return or the get_trail call: describe_trails,
\* the filter loop and the decision on the number of matches; when it
\* returns None, the `else` branch of delete_cloudtrail_resources as well.
describe_trails ==
  /\ pc = "describe_trails"
  /\ \E r \in CallResults :
       /\ calls' = Append(calls, Call("describe_trails", <<>>, r))
       /\ IF r # "ok"
          THEN /\ log' = log \o LookupLog(r, CLOUDTRAIL_NAME_PREFIX)
               /\ Finish(LookupError(r, "describe_trails"))
               /\ UNCHANGED << matching_trails, cloudtrail >>
          ELSE LET m == MatchingTrails(DescribeTrails(account).trailList,
                                       CLOUDTRAIL_NAME_PREFIX)
                   d == Resolution(m, ERROR_NOT_FOUND)
               IN /\ matching_trails' = m
                  /\ UNCHANGED cloudtrail
                  /\ CASE d = "MultipleCloudtrailsFoundError" ->
                            /\ log' = Append(log, LogRec("error", "Multiple cloudtrails found", m))
                            /\ Finish(Raised(d, "get_cloudtrail", "multiple", "none"))
                       [] d = "NoCloudtrailsFoundError" ->
                            /\ log' = Append(log, LogRec("error", "No cloudtrail found for prefix",
                                                         CLOUDTRAIL_NAME_PREFIX))
                            /\ Finish(Raised(d, "get_cloudtrail", "none_found", "none"))
                       [] d = "None" ->
                            /\ log' = log \o
                                 << LogRec("warning", "No cloudtrail found for prefix",
                                           CLOUDTRAIL_NAME_PREFIX),
                                    LogRec("warning", "Cloudtrail not found",
                                           CLOUDTRAIL_NAME_PREFIX) >>
                            /\ Finish(NoError)
                       [] OTHER ->
                            /\ pc' = "get_trail"
                            /\ UNCHANGED << log, outcome >>
  /\ UNCHANGED << config, account, account0, accountAtStart, mode, event, account_id,
                  assume_role_arn, assume_role_name, objects, idx, runs, notArmed >>

\* get_cloudtrail's get_trail call and the branch of
\* delete_cloudtrail_resources on its result and on DRY_RUN.
get_trail ==
  /\ pc = "get_trail"
  /\ \E r \in CallResults :
       /\ calls' = Append(calls, Call("get_trail", matching_trails[1], r))
       /\ IF r # "ok"
          THEN /\ log' = log \o LookupLog(r, CLOUDTRAIL_NAME_PREFIX)
               /\ Finish(LookupError(r, "get_trail"))
               /\ UNCHANGED << cloudtrail, notArmed >>
          ELSE LET t == GetTrail(matching_trails[1])
               IN /\ cloudtrail' = t
                  /\ IF ~Armed(DRY_RUN)
                     THEN /\ log' = Append(log, LogRec("warning", "NOT ARMED",
                                      t.Trail.TrailARN \o <<t.Trail.S3BucketName>>))
                          /\ notArmed' = Append(notArmed,
                                      <<t.Trail.TrailARN, t.Trail.S3BucketName>>)
                          /\ Finish(NoError)
                     ELSE /\ pc' = NextStep("get_trail")
                          /\ UNCHANGED << log, outcome, notArmed >>
  /\ UNCHANGED << config, account, account0, accountAtStart, mode, event, account_id,
                  assume_role_arn, assume_role_name, matching_trails, objects,
                  idx, runs >>

\* ---------------------------------------------------------- deletion steps
\* After a step of the live-mode sequence has succeeded: the next step, or
\* the normal end of the invocation.
Continue(step) ==
  IF NextStep(step) = "return"
  THEN Finish(NoError)
  ELSE pc' = NextStep(step) /\ UNCHANGED outcome

frame == << config, account0, accountAtStart, mode, event, account_id, assume_role_arn,
            assume_role_name, matching_trails, cloudtrail, log, runs, notArmed >>

\* Variant: a failure of stop_logging is swallowed and the trail is deleted
\* all the same.
stop_logging_tolerant ==
  /\ pc = "stop_logging"
  /\ \E r \in CallResults :
       /\ calls' = Append(calls, Call("stop_logging", cloudtrail.Trail.TrailARN, r))
       /\ account' = IF r = "ok"
                     THEN [account EXCEPT !.logging =
                             @ \ {TrailOfArn(cloudtrail.Trail.TrailARN)}]
                     ELSE account
       /\ Continue("stop_logging")
  /\ UNCHANGED << frame, objects, idx >>

\* delete_cloudtrail: client.stop_logging(Name=cloudtrail_arn).
stop_logging ==
  /\ pc = "stop_logging"
  /\ \E r \in CallResults :
       /\ calls' = Append(calls, Call("stop_logging", cloudtrail.Trail.TrailARN, r))
       /\ IF r = "ok"
          THEN /\ account' = [account EXCEPT !.logging =
                                @ \ {TrailOfArn(cloudtrail.Trail.TrailARN)}]
               /\ Continue("stop_logging")
          ELSE /\ Propagate(r, "stop_logging")
               /\ UNCHANGED account
  /\ UNCHANGED << frame, objects, idx >>

\* delete_cloudtrail: client.delete_trail(Name=cloudtrail_arn).
delete_trail ==
  /\ pc = "delete_trail"
  /\ \E r \in CallResults :
       /\ calls' = Append(calls, Call("delete_trail", cloudtrail.Trail.TrailARN, r))
       /\ IF r = "ok"
          THEN /\ account' = [account EXCEPT
                                !.trails = @ \ {TrailOfArn(cloudtrail.Trail.TrailARN)},
                                !.logging = @ \ {TrailOfArn(cloudtrail.Trail.TrailARN)}]
               /\ Continue("delete_trail")
          ELSE /\ Propagate(r, "delete_trail")
               /\ UNCHANGED account
  /\ UNCHANGED << frame, objects, idx >>

\* delete_s3_objects: client.list_objects_v2(Bucket=bucket_name)["Contents"].
list_objects_v2 ==
  /\ pc = "list_objects_v2"
  /\ LET b == cloudtrail.Trail.S3BucketName
         st == account.buckets[b]
     IN \E r \in CallResults :
          LET res == IF r = "ok" /\ ~st.exists THEN "ClientError" ELSE r
          IN /\ calls' = Append(calls, Call("list_objects_v2", <<b>>, res))
             /\ IF res # "ok"
                THEN /\ Finish(CallError(res, "list_objects_v2",
                                 IF r = "ok" THEN "NoSuchBucket" ELSE "injected"))
                     /\ UNCHANGED << objects, idx >>
                ELSE LET resp == ListObjectsV2(st.keys)
                     IN IF ~resp.hasContents
                        THEN /\ Finish(Raised("KeyError", "delete_s3_objects",
                                              "Contents", "none"))
                             /\ UNCHANGED << objects, idx >>
                        ELSE /\ objects' = resp.Contents
                             /\ idx' = 1
                             /\ pc' = "delete_object"
                             /\ UNCHANGED outcome
  /\ UNCHANGED << frame, account >>

\* delete_s3_objects: one turn of the loop, client.delete_object(Bucket, Key).
delete_object ==
  /\ pc = "delete_object"
  /\ idx <= Len(objects)
  /\ LET b == cloudtrail.Trail.S3BucketName
     IN \E r \in CallResults :
          /\ calls' = Append(calls, Call("delete_object",
                                         <<b, KeyNames[objects[idx]]>>, r))
          /\ IF r = "ok"
             THEN /\ account' = [account EXCEPT !.buckets[b].keys = @ \ {objects[idx]}]
                  /\ idx' = idx + 1
                  /\ IF idx + 1 > Len(objects)
                     THEN Continue("delete_s3_objects")
                     ELSE pc' = "delete_object" /\ UNCHANGED outcome
             ELSE /\ Propagate(r, "delete_object")
                  /\ UNCHANGED << account, idx >>
  /\ UNCHANGED << frame, objects >>

\* delete_s3_bucket: client.delete_bucket(Bucket=bucket_name); the object
\* store refuses to delete a bucket that still holds objects.
delete_bucket ==
  /\ pc = "delete_bucket"
  /\ LET b == cloudtrail.Trail.S3BucketName
         st == account.buckets[b]
     IN \E r \in CallResults :
          LET res == IF r = "ok" /\ (~st.exists \/ st.keys # {})
                     THEN "ClientError" ELSE r
          IN /\ calls' = Append(calls, Call("delete_bucket", <<b>>, res))
             /\ IF res = "ok"
                THEN /\ account' = [account EXCEPT !.buckets[b].exists = FALSE]
                     /\ Continue("delete_bucket")
                ELSE /\ Finish(CallError(res, "delete_bucket",
                                 IF r # "ok" THEN "injected"
                                 ELSE IF st.exists THEN "BucketNotEmpty"
                                 ELSE "NoSuchBucket"))
                     /\ UNCHANGED account
  /\ UNCHANGED << frame, objects, idx >>

\* ------------------------------------------------------------------- Next
Next ==
  \/ lambda_handler
  \/ cli_main
  \/ get_partition
  \/ main
  \/ assume_role
  \/ assumed_identity
  \/ describe_trails
  \/ get_trail
  \/ stop_logging
  \/ delete_trail
  \/ list_objects_v2
  \/ delete_object
  \/ delete_bucket

Spec == Init /\ [][Next]_vars

\* =================================================================== claims
\* Vocabulary of the claims, stated over the call trace, the log and the
\* account, independently of the operators the steps are built from.
Mutating == { "stop_logging", "delete_trail", "delete_object", "delete_bucket" }

CallsOf(op) == { i \in DOMAIN calls : calls[i].op = op }

Issued(op) == CallsOf(op) # {}

Succeeded(op) == \E i \in CallsOf(op) : calls[i].ok

Failed(op) == \E i \in CallsOf(op) : ~calls[i].ok

NoMutatingCall == \A i \in DOMAIN calls : calls[i].op \notin Mutating

AllCallsOk == \A i \in DOMAIN calls : calls[i].ok

\* p is a leading substring of n, character by character.
IsLeadingSubstring(p, n) ==
  /\ Len(p) <= Len(n)
  /\ \A i \in 1..Len(p) : n[i] = p[i]

\* The trails of the account that match the prefix when the invocation
\* looks them up (nothing changes the account before the lookup).
MatchSet ==
  { n \in accountAtStart.trails : IsLeadingSubstring(CLOUDTRAIL_NAME_PREFIX, n) }

TheMatch == CHOOSE n \in MatchSet : TRUE

Done == pc = "done"

EndedOk == Done /\ outcome = NoError

EndedWith(type) == Done /\ outcome.status = "error" /\ outcome.type = type

LastLog == log[Len(log)]

\* --- C1
\* C1: trail resolution is a function of the set of matching trail names.
\* Once describe_trails has answered: two or more matches end the
\* invocation with MultipleCloudtrailsFoundError whatever ERROR_NOT_FOUND is,
\* no trail is fetched and none is returned; zero matches end it with
\* NoCloudtrailsFoundError when ERROR_NOT_FOUND is true and return "no
\* trail" when it is false; exactly one match fetches that trail, and the
\* descriptor returned is the one of that trail.
C1_Resolution ==
  Succeeded("describe_trails") =>
    /\ Cardinality(MatchSet) >= 2 =>
         /\ EndedWith("MultipleCloudtrailsFoundError")
         /\ ~Issued("get_trail")
         /\ cloudtrail = NoTrail
    /\ (MatchSet = {} /\ ERROR_NOT_FOUND) =>
         /\ EndedWith("NoCloudtrailsFoundError")
         /\ ~Issued("get_trail")
    /\ (MatchSet = {} /\ ~ERROR_NOT_FOUND) =>
         /\ EndedOk
         /\ cloudtrail = NoTrail
         /\ ~Issued("get_trail")
    /\ Cardinality(MatchSet) = 1 =>
         /\ pc = "get_trail" \/ Issued("get_trail")
         /\ \A i \in CallsOf("get_trail") : calls[i].arg = TheMatch
         /\ Succeeded("get_trail") =>
              /\ cloudtrail.found
              /\ cloudtrail.Trail.Name = TheMatch
              /\ cloudtrail.Trail.TrailARN = TrailARN(TheMatch)
              /\ cloudtrail.Trail.S3BucketName = BucketOf(TheMatch)
         /\ ~Succeeded("get_trail") => cloudtrail = NoTrail

\* One trail out of several matches the prefix and its descriptor is returned.
C1_Witness ==
  /\ Succeeded("get_trail")
  /\ Cardinality(MatchSet) = 1
  /\ Cardinality(accountAtStart.trails) >= 3
  /\ cloudtrail.Trail.Name = TheMatch

\* --- C2
\* C2: with DRY_RUN true no invocation issues a mutating call, the account
\* stays as it was before the first invocation, every invocation that
\* resolves a trail ends normally with the NOT ARMED warning for that
\* trail's (ARN, bucket) pair as its last log record, and all the pairs so
\* logged, over all the invocations, are the same pair.
C2_DryRun ==
  DRY_RUN =>
    /\ NoMutatingCall
    /\ account = account0
    /\ \A i, j \in DOMAIN notArmed : notArmed[i] = notArmed[j]
    /\ Succeeded("get_trail") =>
         /\ EndedOk
         /\ Len(log) = 1
         /\ LastLog = LogRec("warning", "NOT ARMED",
                        TrailARN(TheMatch) \o <<BucketOf(TheMatch)>>)
         /\ notArmed[Len(notArmed)] = <<TrailARN(TheMatch), BucketOf(TheMatch)>>

\* Two dry runs against the same account have both resolved the trail.
C2_Witness ==
  /\ DRY_RUN
  /\ runs = 2
  /\ Len(notArmed) = 2
  /\ EndedOk
  /\ accountAtStart.buckets[BucketOf(TheMatch)].keys # {}

\* --- C3
\* C3: when the number of trails matching the prefix at lookup time is not
\* exactly one, the invocation has ended and has issued no mutating call, in
\* live mode as in dry-run mode: two or more matches end it with
\* MultipleCloudtrailsFoundError; zero matches with ERROR_NOT_FOUND false log
\* warnings only and end it normally; zero matches with ERROR_NOT_FOUND true
\* end it with NoCloudtrailsFoundError.
C3_NoUniqueMatchNoMutation ==
  (Succeeded("describe_trails") /\ Cardinality(MatchSet) # 1) =>
    /\ Done
    /\ NoMutatingCall
    /\ account = accountAtStart
    /\ Cardinality(MatchSet) >= 2 => EndedWith("MultipleCloudtrailsFoundError")
    /\ (MatchSet = {} /\ ~ERROR_NOT_FOUND) =>
         /\ EndedOk
         /\ log # <<>>
         /\ \A i \in DOMAIN log : log[i].level = "warning"
    /\ (MatchSet = {} /\ ERROR_NOT_FOUND) => EndedWith("NoCloudtrailsFoundError")

\* Live mode, two matching trails, the lookup has answered.
C3_Witness ==
  /\ ~DRY_RUN
  /\ Succeeded("describe_trails")
  /\ Cardinality(MatchSet) >= 2
  /\ Done

\* --- C4
\* C4: in live mode, in the call trace of an invocation, every delete_trail
\* call comes after a successful stop_logging call on the same ARN; every
\* delete_object and every delete_bucket call comes after a successful
\* delete_trail call on the ARN of the resolved trail; and every
\* delete_object call on a bucket comes before every delete_bucket call on
\* that bucket.
C4_Ordering ==
  ~DRY_RUN =>
    /\ \A j \in CallsOf("delete_trail") :
         \E i \in CallsOf("stop_logging") :
           i < j /\ calls[i].ok /\ calls[i].arg = calls[j].arg
    /\ \A j \in CallsOf("delete_object") \cup CallsOf("delete_bucket") :
         \E i \in CallsOf("delete_trail") :
           i < j /\ calls[i].ok /\ calls[i].arg = cloudtrail.Trail.TrailARN
    /\ \A i \in CallsOf("delete_object"), j \in CallsOf("delete_bucket") :
         calls[i].arg[1] = calls[j].arg[1] => i < j
    /\ \A i \in CallsOf("stop_logging"), j \in CallsOf("delete_trail") : i < j

\* The full live sequence on a bucket with two objects has run.
C4_Witness ==
  /\ ~DRY_RUN
  /\ EndedOk
  /\ Succeeded("delete_bucket")
  /\ Cardinality(CallsOf("delete_object")) = 2

\* --- C5
\* The bucket of the resolved trail as the invocation found it.
StartBucket == accountAtStart.buckets[BucketOf(TheMatch)]

NowBucket == account.buckets[BucketOf(TheMatch)]

\* C5: in live mode, when exactly one trail matches and no service call
\* fails, for a bucket of zero or more objects that fit in one listing page
\* the invocation issues one delete_object call per key and ends normally
\* with the trail deleted and the bucket emptied and deleted.
C5_SinglePageBucketDeleted ==
  ( /\ Done
    /\ ~DRY_RUN
    /\ Succeeded("get_trail")
    /\ AllCallsOk
    /\ StartBucket.exists
    /\ Cardinality(StartBucket.keys) <= PageSize ) =>
      /\ EndedOk
      /\ TheMatch \notin account.trails
      /\ NowBucket.keys = {}
      /\ ~NowBucket.exists
      /\ Cardinality(CallsOf("delete_object")) = Cardinality(StartBucket.keys)

\* --- C6
\* C6: in event mode the account id is the createAccountStatus.accountId of
\* a CreateAccountResult event and the requestParameters.target.id of an
\* InviteAccountToOrganization event; an event of any other name ends the
\* invocation with the lookup error of the strategy table, with no account
\* id extracted, before any service call (role assumption, trail or bucket
\* call) is issued.
C6_AccountId ==
  mode = "lambda" =>
    LET name == event.detail.eventName
    IN /\ name = "CreateAccountResult" =>
            /\ account_id = event.detail.serviceEventDetails.createAccountStatus.accountId
            /\ outcome.op # "get_account_id"
       /\ name = "InviteAccountToOrganization" =>
            /\ account_id = event.detail.requestParameters.target.id
            /\ outcome.op # "get_account_id"
       /\ name \notin {"CreateAccountResult", "InviteAccountToOrganization"} =>
            /\ EndedWith("KeyError")
            /\ outcome.op = "get_account_id"
            /\ outcome.code = name
            /\ account_id = ""
            /\ calls = <<>>
            /\ account = accountAtStart

\* An event of an unknown name has ended an invocation.
C6_Witness ==
  /\ mode = "lambda"
  /\ event.detail.eventName = "RemoveAccountFromOrganization"
  /\ Done
  /\ accountAtStart.trails # {}

\* --- C7
LookupCalls == CallsOf("describe_trails") \cup CallsOf("get_trail")

\* C7 as stated: every failure of describe_trails or get_trail ends trail
\* resolution with DeleteDefaultCloudtrailError carrying the original error
\* as cause, and no mutating call is issued.
C7_AnyFailureWrapped ==
  \A i \in LookupCalls :
    ~calls[i].ok =>
      /\ EndedWith("DeleteDefaultCloudtrailError")
      /\ outcome.cause = calls[i].result
      /\ NoMutatingCall

\* C7 amended: a describe_trails or get_trail call that fails with a
\* ClientError ends the invocation with DeleteDefaultCloudtrailError whose
\* cause is that ClientError, logged at error level; one that fails with any
\* other exception ends it with that exception itself, unwrapped and not
\* logged; in both cases it is the last call and nothing was mutated.
\* DeleteDefaultCloudtrailError arises from nothing but such a ClientError.
C7_ClientErrorWrapped ==
  /\ \A i \in LookupCalls :
       ~calls[i].ok =>
         /\ Done
         /\ i = Len(calls)
         /\ NoMutatingCall
         /\ account = accountAtStart
         /\ IF calls[i].result = "ClientError"
            THEN /\ outcome = Raised("DeleteDefaultCloudtrailError", calls[i].op,
                                     "lookup", "ClientError")
                 /\ log = << LogRec("error", "Error getting cloudtrail",
                                    CLOUDTRAIL_NAME_PREFIX) >>
            ELSE /\ outcome = Raised(calls[i].result, calls[i].op, "injected", "none")
                 /\ log = << >>
  /\ EndedWith("DeleteDefaultCloudtrailError") =>
       \E i \in LookupCalls : calls[i].result = "ClientError"
  /\ (EndedWith("NoCloudtrailsFoundError") \/ EndedWith("MultipleCloudtrailsFoundError")) =>
       /\ outcome.cause = "none"
       /\ \A i \in LookupCalls : calls[i].ok

\* get_trail has failed with an exception that is not a ClientError.
C7_Witness ==
  /\ \E i \in CallsOf("get_trail") : calls[i].result = "BotoCoreError"
  /\ ~DRY_RUN
  /\ Done

\* --- C8
LoggedAtErrorLevel == log # <<>> /\ LastLog.level = "error"

NoRepeatedCall(ops) ==
  \A i, j \in DOMAIN calls :
    (i < j /\ calls[i].op \in ops /\ calls[i].op = calls[j].op)
      => calls[i].arg # calls[j].arg

AllOps == Mutating \cup { "get_caller_identity", "assume_role", "describe_trails",
                          "get_trail", "list_objects_v2" }

\* C8 as stated: every error that ends an invocation has been logged at
\* error level, and no service call is issued twice with the same arguments
\* within one invocation.
C8_EveryErrorLogged ==
  /\ (Done /\ outcome.status = "error") => LoggedAtErrorLevel
  /\ NoRepeatedCall(AllOps)

\* C8 amended: of the errors that end an invocation, exactly those raised by
\* trail resolution itself (NoCloudtrailsFoundError,
\* MultipleCloudtrailsFoundError, DeleteDefaultCloudtrailError) have been
\* logged at error level; an unknown event name, a failure of an STS call
\* or of role assumption, a lookup failure that is not a ClientError and a
\* failure of any deletion step end it with no error-level record.  A
\* failed call is the last call of its invocation, and no call of the trail
\* or object-store service is issued twice with the same arguments.
C8_LookupErrorsLogged ==
  /\ (Done /\ outcome.status = "error") =>
       ( LoggedAtErrorLevel <=>
           outcome.type \in { "NoCloudtrailsFoundError",
                              "MultipleCloudtrailsFoundError",
                              "DeleteDefaultCloudtrailError" } )
  /\ \A i \in DOMAIN calls : ~calls[i].ok => (Done /\ i = Len(calls))
  /\ NoRepeatedCall(AllOps \ {"get_caller_identity"})

\* A deletion step has failed after another had succeeded.
C8_Witness ==
  /\ Done
  /\ Failed("delete_object")
  /\ Cardinality(CallsOf("delete_object")) = 2
  /\ ~LoggedAtErrorLevel

\* --- C9
KeyOf(name) == CHOOSE k \in 1..Len(KeyNames) : KeyNames[k] = name

OkCalls(op) == { i \in CallsOf(op) : calls[i].ok }

\* The account the invocation started on, changed by exactly the calls that
\* succeeded.
AccountAfterOkCalls ==
  LET gone == { TrailOfArn(calls[i].arg) : i \in OkCalls("delete_trail") }
      stopped == { TrailOfArn(calls[i].arg) : i \in OkCalls("stop_logging") }
  IN [ trails |-> accountAtStart.trails \ gone,
       logging |-> accountAtStart.logging \ (gone \cup stopped),
       buckets |->
         [ b \in BucketNames |->
             [ exists |-> /\ accountAtStart.buckets[b].exists
                          /\ \A i \in OkCalls("delete_bucket") : calls[i].arg # <<b>>,
               keys |-> accountAtStart.buckets[b].keys \
                          { KeyOf(calls[i].arg[2]) :
                              i \in { j \in OkCalls("delete_object") :
                                        calls[j].arg[1] = b } } ] ] ]

DeletionSteps == Mutating \cup { "list_objects_v2" }

\* C9: live-mode deletion stops at the first failing step and undoes
\* nothing.  A failed stop_logging, delete_trail, list_objects_v2,
\* delete_object or delete_bucket call is the last call of the invocation,
\* which ends with that call's exception unchanged; the account is the
\* starting account changed by exactly the calls that succeeded.  When
\* stop_logging fails the account is untouched; when the invocation fails
\* after delete_trail succeeded the trail is gone and the bucket, if it
\* existed, still exists.
C9_NoRollback ==
  ~DRY_RUN =>
    /\ account = AccountAfterOkCalls
    /\ \A i \in DOMAIN calls :
         (calls[i].op \in DeletionSteps /\ ~calls[i].ok) =>
           /\ Done
           /\ i = Len(calls)
           /\ outcome.status = "error"
           /\ outcome.type = calls[i].result
           /\ outcome.op = calls[i].op
           /\ outcome.cause = "none"
    /\ Failed("stop_logging") => account = accountAtStart
    /\ Failed("delete_trail") =>
         /\ TheMatch \in account.trails
         /\ account.buckets = accountAtStart.buckets
    /\ (Succeeded("delete_trail") /\ Done /\ outcome.status = "error") =>
         /\ TheMatch \notin account.trails
         /\ NowBucket.exists = StartBucket.exists
         /\ NowBucket.keys \subseteq StartBucket.keys
         /\ \A b \in BucketNames \ {BucketOf(TheMatch)} :
              account.buckets[b] = accountAtStart.buckets[b]

\* The second delete_object has failed: trail gone, bucket partially emptied.
C9_Witness ==
  /\ ~DRY_RUN
  /\ Done
  /\ Failed("delete_object")
  /\ Cardinality(OkCalls("delete_object")) = 1
  /\ TheMatch \notin account.trails
  /\ NowBucket.exists
  /\ NowBucket.keys # {}
  /\ NowBucket.keys # StartBucket.keys

\* --- C10
\* The keys of the first listing page of the bucket, in listing order.
FirstPageKeys ==
  LET all == SetToSeq(StartBucket.keys)
  IN [ i \in 1..Min(PageSize, Len(all)) |-> all[i] ]

DeleteObjectTrace ==
  LET idxs == SetToSeq(CallsOf("delete_object"))
  IN [ i \in 1..Len(idxs) |-> calls[idxs[i]].arg ]

====
